---- MODULE Spec2Model ----
(***************************************************************************)
(* Model of krwc/coreutils-rs: the two cat programs (src/src/cat and the   *)
(* older decorator-chain src/cat, whose definitions carry the prefix old_) *)
(* and the seq program (src/src/seq).                                      *)
(*                                                                         *)
(* Bytes are one-character strings; NUL is the zero byte the read buffer   *)
(* is initialised with.  Byte streams are sequences of bytes.              *)
(***************************************************************************)
EXTENDS Integers, Sequences, FiniteSets, TLC

VARIABLES
    prog,           \* which program runs: "cat", "old_cat", "seq", "validate"
    pc,             \* position of the running program
    options,        \* src/src/cat: the parsed command line (getopts Matches)
    args,           \* src/cat: the classified command line (Vec<CatArg>)
    decorators,     \* src/src/cat Decorators {ends, number, squeeze}
    chain,          \* src/cat: the Vec<Box<Decorator>> with each decorator's fields
    files,          \* the arguments main's for loop still has to process
    state,          \* src/src/cat State {empty_streak, current_line}
    input,          \* copy_decorated's read buffer ([u8; BUFSIZE])
    path,           \* which copy the current argument takes: "raw" / "decorated"
    inp,            \* history: every byte the readers delivered, in order
    out,            \* everything handed to standard output, in order
    entry,          \* history: the counters each argument's copy was entered with
    failed,         \* history: a read or write I/O failure has happened
    exit_status,    \* -1 while running, else the process exit status
    stdin_reads,    \* history: how many times standard input was copied
    config,         \* src/src/seq SeqConfig
    k,              \* seq's loop counter
    result          \* what validate_format returned

catvars == <<options, args, decorators, chain, files, state, input, path, inp,
             entry, failed, stdin_reads>>
seqvars == <<config, k, result>>
vars == <<prog, pc, out, exit_status, catvars, seqvars>>

(***************************************************************************)
(* Bounds.  BUFSIZE is copy_decorated's buffer size (65536 in the source,  *)
(* src/src/cat/src/main.rs:37) scaled down so that full reads, short reads *)
(* and lines spanning reads all occur.                                     *)
(***************************************************************************)
BUFSIZE == 3
MaxInput == 3
MaxFiles == 2

NL == "\n"
NUL == "NUL"
Byte == {"a", NL}

RECURSIVE SeqsOfLen(_, _)
SeqsOfLen(S, n) ==
    IF n = 0 THEN {<<>>}
    ELSE {Append(s, x) : s \in SeqsOfLen(S, n - 1), x \in S}

RECURSIVE SeqsUpTo(_, _)
SeqsUpTo(S, n) ==
    IF n = 0 THEN {<<>>} ELSE SeqsOfLen(S, n) \cup SeqsUpTo(S, n - 1)

(***************************************************************************)
(* format!("{:6}: ", n): n in decimal, right-aligned in at least 6         *)
(* characters, then ": ".                                                  *)
(***************************************************************************)
DigitChar(d) == <<"0", "1", "2", "3", "4", "5", "6", "7", "8", "9">>[d + 1]

RECURSIVE Decimal(_)
Decimal(n) ==
    IF n < 10 THEN <<DigitChar(n)>>
    ELSE Append(Decimal(n \div 10), DigitChar(n % 10))

RECURSIVE Spaces(_)
Spaces(n) == IF n <= 0 THEN <<>> ELSE <<" ">> \o Spaces(n - 1)

LineNumber(n) == Spaces(6 - Len(Decimal(n))) \o Decimal(n) \o <<":", " ">>

(***************************************************************************)
(* src/src/cat: copy_decorated                                             *)
(***************************************************************************)

\* input[p..].iter().position(|c| *c == b'\n'): offset of the first newline of
\* the buffer at or after p (0-based), over the WHOLE buffer; -1 when none.
newline_offset(buf, p) ==
    LET hits == {q \in p .. (Len(buf) - 1) : buf[q + 1] = NL}
    IN  IF hits = {} THEN -1
        ELSE (CHOOSE q \in hits : \A r \in hits : q <= r) - p

\* &input[p..]: the buffer from p to its end
tail_slice(buf, p) == SubSeq(buf, p + 1, Len(buf))

\* src/src/cat Decorators::any
any(d) == d.ends \/ d.number \/ d.squeeze

\* The inner `while p < len` loop of copy_decorated for one successful read of
\* len bytes into buf.  acc = [out, state] is threaded through the loop.
RECURSIVE line_loop(_, _, _, _, _)
line_loop(buf, len, d, p, acc) ==
    IF p >= len THEN acc
    ELSE
      LET off == newline_offset(buf, p) IN
      IF off < 0
      THEN [acc EXCEPT !.out = @ \o tail_slice(buf, p),
                       !.state.empty_streak = 0]
      ELSE
        LET streak == IF off = 0 THEN acc.state.empty_streak + 1 ELSE 1 IN
        IF d.squeeze /\ streak >= 3
        THEN line_loop(buf, len, d, p + 1,
                 [acc EXCEPT !.state.empty_streak = streak])
        ELSE line_loop(buf, len, d, p + 1 + off,
                 [out   |-> acc.out
                            \o (IF d.number THEN LineNumber(acc.state.current_line)
                                ELSE <<>>)
                            \o SubSeq(buf, p + 1, p + off)
                            \o (IF d.ends THEN <<"$">> ELSE <<>>)
                            \o <<NL>>,
                  state |-> [empty_streak |-> streak,
                             current_line |-> IF d.number
                                              THEN acc.state.current_line + 1
                                              ELSE acc.state.current_line]])

\* reader.read(&mut input) returning Ok(len), len = Len(chunk) > 0: the chunk
\* overwrites the first len bytes of the buffer, the rest keeps its old content.
read_into(buf, chunk) ==
    [i \in 1 .. Len(buf) |-> IF i <= Len(chunk) THEN chunk[i] ELSE buf[i]]

Chunks == {c \in SeqsUpTo(Byte, BUFSIZE) : c # <<>>}

\* copy_decorated's `while let Ok(len) = reader.read(&mut input)` loop over
\* the reads a reader delivers, each of them Ok(len) with len > 0: the buffer
\* goes from one read to the next, acc = [out, state] as in line_loop.
RECURSIVE read_loop(_, _, _, _)
read_loop(chunks, buf, d, acc) ==
    IF chunks = <<>> THEN acc
    ELSE read_loop(Tail(chunks), read_into(buf, Head(chunks)), d,
                   line_loop(read_into(buf, Head(chunks)), Len(Head(chunks)),
                             d, 0, acc))


ZeroBuffer == [i \in 1 .. BUFSIZE |-> NUL]
InitialState == [empty_streak |-> 1, current_line |-> 1]
NoDecorators == [ends |-> FALSE, number |-> FALSE, squeeze |-> FALSE]
NoOptions == [h |-> FALSE, v |-> FALSE, E |-> FALSE, n |-> FALSE, s |-> FALSE,
              free |-> <<>>]
NoConfig == [first |-> 0, inc |-> 0, last |-> 0, separator |-> <<>>,
             format |-> <<>>]

\* the variables of the programs that are not running
SeqIdle == config = NoConfig /\ k = 0 /\ result = "none"
CatIdle ==
    /\ options = NoOptions
    /\ args = <<>>
    /\ decorators = NoDecorators
    /\ chain = <<>>
    /\ files = <<>>
    /\ state = InitialState
    /\ input = ZeroBuffer
    /\ path = "none"
    /\ inp = <<>>
    /\ entry = <<>>
    /\ failed = FALSE
    /\ stdin_reads = 0

\* the process ends with the given status
Exit(status) ==
    /\ pc' = "exit"
    /\ exit_status' = status

(***************************************************************************)
(* src/src/cat: main, cat_file, copy_or_die, copy_decorated, copy_raw      *)
(***************************************************************************)
FileArgs == SeqsUpTo({"-", "f"}, MaxFiles)

Options == [h : BOOLEAN, v : BOOLEAN, E : BOOLEAN, n : BOOLEAN, s : BOOLEAN,
            free : FileArgs]

\* src/src/cat started with any command line getopts accepts
InitCat ==
    /\ prog = "cat"
    /\ pc = "main"
    /\ options \in Options
    /\ args = <<>>
    /\ decorators = NoDecorators
    /\ chain = <<>>
    /\ files = <<>>
    /\ state = InitialState
    /\ input = ZeroBuffer
    /\ path = "none"
    /\ inp = <<>>
    /\ out = <<>>
    /\ entry = <<>>
    /\ failed = FALSE
    /\ exit_status = -1
    /\ stdin_reads = 0
    /\ SeqIdle

\* what no action of src/src/cat changes
CatFrame == UNCHANGED <<prog, options, args, chain, seqvars>>

\* main, lines 164-166: -h prints the usage and returns
main_help ==
    /\ prog = "cat"
    /\ pc = "main"
    /\ options.h
    /\ out' = Append(out, "usage")
    /\ Exit(0)
    /\ CatFrame
    /\ UNCHANGED <<decorators, files, state, input, path, inp, entry,
                   failed, stdin_reads>>

\* main, lines 167-172: -v prints the version and returns
main_version ==
    /\ prog = "cat"
    /\ pc = "main"
    /\ ~options.h
    /\ options.v
    /\ out' = Append(out, "version")
    /\ Exit(0)
    /\ CatFrame
    /\ UNCHANGED <<decorators, files, state, input, path, inp, entry,
                   failed, stdin_reads>>

\* main, lines 173-189: the Decorators, the file list and the one State
main ==
    /\ prog = "cat"
    /\ pc = "main"
    /\ ~options.h
    /\ ~options.v
    /\ decorators' = [ends |-> options.E, number |-> options.n,
                      squeeze |-> options.s]
    /\ files' = IF options.free = <<>> THEN <<"-">> ELSE options.free
    /\ state' = InitialState
    /\ pc' = "loop"
    /\ CatFrame
    /\ UNCHANGED <<input, path, inp, out, entry, failed, exit_status,
                   stdin_reads>>

\* Variant for C9: copy_or_die with its two branches exchanged
copy_or_die_exchanged(d) == IF any(d) THEN "raw" ELSE "decorated"

\* copy_or_die, lines 99-103: which copy an opened reader takes
copy_or_die(d) == IF any(d) THEN "decorated" ELSE "raw"

\* Variant for C7: cat_file making a fresh State for every argument
cat_file_fresh_state ==
    /\ prog = "cat"
    /\ pc = "loop"
    /\ files # <<>>
    /\ files' = Tail(files)
    /\ \/ /\ Head(files) = "-"
          /\ stdin_reads' = stdin_reads + 1
          /\ pc' = "copy"
          /\ path' = copy_or_die(decorators)
          /\ input' = ZeroBuffer
          /\ state' = InitialState
          /\ entry' = Append(entry, state')
          /\ UNCHANGED exit_status
       \/ /\ Head(files) # "-"
          /\ pc' = "copy"
          /\ path' = copy_or_die(decorators)
          /\ input' = ZeroBuffer
          /\ state' = InitialState
          /\ entry' = Append(entry, state')
          /\ UNCHANGED <<exit_status, stdin_reads>>
       \/ /\ Head(files) # "-"       \* get_file: die!(...), exit status 1
          /\ Exit(1)
          /\ UNCHANGED <<state, path, input, entry, stdin_reads>>
    /\ CatFrame
    /\ UNCHANGED <<decorators, inp, out, failed>>

\* One iteration of main's `for file in files` (lines 190-192): cat_file opens
\* the reader and enters copy_or_die with the caller's State.  get_file may die.
cat_file ==
    /\ prog = "cat"
    /\ pc = "loop"
    /\ files # <<>>
    /\ files' = Tail(files)
    /\ \/ /\ Head(files) = "-"
          /\ stdin_reads' = stdin_reads + 1
          /\ pc' = "copy"
          /\ path' = copy_or_die(decorators)
          /\ input' = ZeroBuffer
          /\ entry' = Append(entry, state)
          /\ UNCHANGED <<state, exit_status>>
       \/ /\ Head(files) # "-"
          /\ pc' = "copy"
          /\ path' = copy_or_die(decorators)
          /\ input' = ZeroBuffer
          /\ entry' = Append(entry, state)
          /\ UNCHANGED <<state, exit_status, stdin_reads>>
       \/ /\ Head(files) # "-"       \* get_file: die!(...), exit status 1
          /\ Exit(1)
          /\ UNCHANGED <<state, path, input, entry, stdin_reads>>
    /\ CatFrame
    /\ UNCHANGED <<decorators, inp, out, failed>>

\* main returns after the last file
main_return ==
    /\ prog = "cat"
    /\ pc = "loop"
    /\ files = <<>>
    /\ Exit(0)
    /\ CatFrame
    /\ UNCHANGED <<decorators, files, state, input, path, inp, out, entry, failed, stdin_reads>>

\* One iteration of copy_decorated's `while let Ok(len) = reader.read(..)`.
copy_decorated ==
    /\ prog = "cat"
    /\ pc = "copy"
    /\ path = "decorated"
    /\ \/ \E chunk \in Chunks :            \* Ok(len), len > 0
            LET buf == read_into(input, chunk)
                r   == line_loop(buf, Len(chunk), decorators, 0,
                                 [out |-> out, state |-> state])
            IN
            /\ Len(inp) + Len(chunk) <= MaxInput
            /\ inp' = inp \o chunk
            /\ input' = buf
            /\ \/ /\ out' = r.out          \* every write succeeded
                  /\ state' = r.state
                  /\ UNCHANGED <<pc, failed, exit_status>>
               \/ /\ r.out # out           \* a write_all fails: `?`, then unwrap panics
                  /\ failed' = TRUE
                  /\ Exit(101)
                  /\ UNCHANGED <<out, state>>
       \/ /\ pc' = "loop"                  \* Ok(0): break, return Ok(())
          /\ UNCHANGED <<inp, input, out, state, failed, exit_status>>
       \/ /\ pc' = "loop"                  \* Err(_): the loop ends, return Ok(())
          /\ failed' = TRUE
          /\ UNCHANGED <<inp, input, out, state, exit_status>>
    /\ CatFrame
    /\ UNCHANGED <<decorators, files, path, entry, stdin_reads>>

\* copy_raw: io::copy(from, stdout), then unwrap in copy_or_die
copy_raw ==
    /\ prog = "cat"
    /\ pc = "copy"
    /\ path = "raw"
    /\ \/ \E chunk \in Chunks :
            /\ Len(inp) + Len(chunk) <= MaxInput
            /\ inp' = inp \o chunk
            /\ out' = out \o chunk
            /\ UNCHANGED <<pc, failed, exit_status>>
       \/ /\ pc' = "loop"                  \* end of input: Ok(n)
          /\ UNCHANGED <<inp, out, failed, exit_status>>
       \/ /\ failed' = TRUE                \* a read or write error: unwrap panics
          /\ Exit(101)
          /\ UNCHANGED <<inp, out>>
    /\ CatFrame
    /\ UNCHANGED <<decorators, files, state, input, path, entry,
                   stdin_reads>>

NextCat ==
    \/ main_help
    \/ main_version
    \/ main
    \/ cat_file
    \/ main_return
    \/ copy_decorated
    \/ copy_raw

(***************************************************************************)
(* src/cat (the decorator-chain cat): Decorator implementations            *)
(***************************************************************************)
MaxArgs == 3

\* last_byte: i32 = -1, "no byte seen yet"
NoByte == "none"

\* LineSqueezerDecorator::new, LineNumberDecorator::new, EndLineDecorator::new
old_squeezer == [kind |-> "squeeze", last_byte |-> NoByte, streak |-> 0]
old_numberer == [kind |-> "number", current_line |-> 1, last_byte |-> NoByte]
old_ender == [kind |-> "ends"]

\* Decorator::decorate of the three decorators: the decorator after the call,
\* the bytes it appended to output, and its return value (truncate).
old_decorate(dec, byte) ==
    CASE dec.kind = "squeeze" ->
           IF dec.last_byte = NL /\ byte = NL
           THEN IF dec.streak + 1 # 1
                THEN [dec |-> [dec EXCEPT !.streak = @ + 1],
                      emit |-> <<>>, truncate |-> TRUE]
                ELSE [dec |-> [dec EXCEPT !.streak = @ + 1, !.last_byte = byte],
                      emit |-> <<>>, truncate |-> FALSE]
           ELSE [dec |-> [dec EXCEPT !.streak = 0, !.last_byte = byte],
                 emit |-> <<>>, truncate |-> FALSE]
      [] dec.kind = "number" ->
           IF dec.last_byte = NoByte \/ dec.last_byte = NL
           THEN [dec |-> [dec EXCEPT !.current_line = @ + 1, !.last_byte = byte],
                 emit |-> LineNumber(dec.current_line), truncate |-> FALSE]
           ELSE [dec |-> [dec EXCEPT !.last_byte = byte],
                 emit |-> <<>>, truncate |-> FALSE]
      [] dec.kind = "ends" ->
           [dec |-> dec,
            emit |-> IF byte = NL THEN <<"$">> ELSE <<>>,
            truncate |-> FALSE]

\* `for decorator in decorators.iter_mut()` for one byte (lines 94-105):
\* acc = [chain, output, truncate]; the loop breaks at the first truncate.
RECURSIVE old_decorate_all(_, _, _)
old_decorate_all(i, byte, acc) ==
    IF i > Len(acc.chain) THEN acc
    ELSE
      LET r == old_decorate(acc.chain[i], byte)
          a == [chain    |-> [acc.chain EXCEPT ![i] = r.dec],
                output   |-> acc.output \o r.emit,
                truncate |-> r.truncate]
      IN  IF r.truncate THEN a ELSE old_decorate_all(i + 1, byte, a)

\* `for character in input` (lines 93-106): acc = [chain, output]
RECURSIVE old_decorate_input(_, _, _)
old_decorate_input(data, i, acc) ==
    IF i > Len(data) THEN acc
    ELSE
      LET r == old_decorate_all(1, data[i],
                   [chain |-> acc.chain, output |-> acc.output,
                    truncate |-> FALSE])
      IN  old_decorate_input(data, i + 1,
              [chain  |-> r.chain,
               output |-> IF r.truncate THEN r.output
                          ELSE Append(r.output, data[i])])

(***************************************************************************)
(* src/cat: parse_args, main, cat_arg, copy_to_stdout_*                    *)
(***************************************************************************)
CatArg == {"Ends", "File", "Help", "Number", "Squeeze", "Stdin", "Version",
           "Unrecognized"}

Has(a, x) == \E i \in 1 .. Len(a) : a[i] = x

\* src/cat started with any command line; "Unrecognized" is an argument that
\* starts with '-' and is no option
InitOld ==
    /\ prog = "old_cat"
    /\ pc = "main"
    /\ options = NoOptions
    /\ args \in SeqsUpTo(CatArg, MaxArgs)
    /\ decorators = NoDecorators
    /\ chain = <<>>
    /\ files = <<>>
    /\ state = InitialState
    /\ input = ZeroBuffer
    /\ path = "none"
    /\ inp = <<>>
    /\ out = <<>>
    /\ entry = <<>>
    /\ failed = FALSE
    /\ exit_status = -1
    /\ stdin_reads = 0
    /\ SeqIdle

\* what no action of src/cat changes
OldFrame ==
    UNCHANGED <<prog, options, args, decorators, state, input, seqvars>>

\* main, lines 282-291: the decorators the command line asks for, in this order
old_decorators(a) ==
    (IF Has(a, "Squeeze") THEN <<old_squeezer>> ELSE <<>>)
    \o (IF Has(a, "Number") THEN <<old_numberer>> ELSE <<>>)
    \o (IF Has(a, "Ends") THEN <<old_ender>> ELSE <<>>)

\* parse_args, lines 188-194: cat_die on an unrecognized option
old_parse_args_die ==
    /\ prog = "old_cat"
    /\ pc = "main"
    /\ Has(args, "Unrecognized")
    /\ Exit(1)
    /\ OldFrame
    /\ UNCHANGED <<chain, files, path, inp, out, entry, failed,
                   stdin_reads>>

\* main, lines 275-277
old_main_help ==
    /\ prog = "old_cat"
    /\ pc = "main"
    /\ ~Has(args, "Unrecognized")
    /\ Has(args, "Help")
    /\ out' = Append(out, "usage")
    /\ Exit(0)
    /\ OldFrame
    /\ UNCHANGED <<chain, files, path, inp, entry, failed, stdin_reads>>

\* main, lines 278-280
old_main_version ==
    /\ prog = "old_cat"
    /\ pc = "main"
    /\ ~Has(args, "Unrecognized")
    /\ ~Has(args, "Help")
    /\ Has(args, "Version")
    /\ out' = Append(out, "version")
    /\ Exit(0)
    /\ OldFrame
    /\ UNCHANGED <<chain, files, path, inp, entry, failed, stdin_reads>>

\* main, lines 282-295: the decorator chain, and Stdin when args is empty
old_main ==
    /\ prog = "old_cat"
    /\ pc = "main"
    /\ ~Has(args, "Unrecognized")
    /\ ~Has(args, "Help")
    /\ ~Has(args, "Version")
    /\ chain' = old_decorators(args)
    /\ files' = IF Len(args) = 0 THEN <<"Stdin">> ELSE args
    /\ pc' = "loop"
    /\ OldFrame
    /\ UNCHANGED <<path, inp, out, entry, failed, exit_status,
                   stdin_reads>>

\* copy_to_stdout_or_die, lines 119-123
old_copy_to_stdout_or_die(c) == IF Len(c) > 0 THEN "decorated" ELSE "raw"

\* One iteration of main's `for arg in args`: cat_arg (lines 149-156)
old_cat_arg ==
    /\ prog = "old_cat"
    /\ pc = "loop"
    /\ files # <<>>
    /\ files' = Tail(files)
    /\ \/ /\ Head(files) = "Stdin"
          /\ stdin_reads' = stdin_reads + 1
          /\ pc' = "copy"
          /\ path' = old_copy_to_stdout_or_die(chain)
          /\ entry' = Append(entry, chain)
          /\ UNCHANGED exit_status
       \/ /\ Head(files) = "File"
          /\ pc' = "copy"
          /\ path' = old_copy_to_stdout_or_die(chain)
          /\ entry' = Append(entry, chain)
          /\ UNCHANGED <<exit_status, stdin_reads>>
       \/ /\ Head(files) = "File"          \* get_file: cat_die, exit status 1
          /\ Exit(1)
          /\ UNCHANGED <<path, entry, stdin_reads>>
       \/ /\ Head(files) \notin {"Stdin", "File"}    \* `_ => return`
          /\ UNCHANGED <<pc, path, entry, exit_status, stdin_reads>>
    /\ OldFrame
    /\ UNCHANGED <<chain, inp, out, failed>>

old_main_return ==
    /\ prog = "old_cat"
    /\ pc = "loop"
    /\ files = <<>>
    /\ Exit(0)
    /\ OldFrame
    /\ UNCHANGED <<chain, files, path, inp, out, entry, failed,
                   stdin_reads>>

\* One iteration of copy_to_stdout_decorated_or_die's loop (lines 86-115);
\* read_to_end delivers everything up to the end of the input.
old_copy_decorated ==
    /\ prog = "old_cat"
    /\ pc = "copy"
    /\ path = "decorated"
    /\ \/ \E data \in SeqsUpTo(Byte, MaxInput - Len(inp)) :      \* Ok(n), n > 0
            LET r == old_decorate_input(data, 1,
                         [chain |-> chain, output |-> <<>>])
            IN
            /\ data # <<>>
            /\ inp' = inp \o data
            /\ chain' = r.chain
            /\ \/ /\ out' = out \o r.output
                  /\ UNCHANGED <<pc, failed, exit_status>>
               \/ /\ r.output # <<>>       \* write_all fails: cat_die
                  /\ failed' = TRUE
                  /\ Exit(1)
                  /\ UNCHANGED out
       \/ /\ pc' = "loop"                  \* Ok(0): break
          /\ UNCHANGED <<inp, chain, out, failed, exit_status>>
       \/ /\ failed' = TRUE                \* Err(_): cat_die
          /\ Exit(1)
          /\ UNCHANGED <<inp, chain, out>>
    /\ OldFrame
    /\ UNCHANGED <<files, path, entry, stdin_reads>>

\* copy_to_stdout_raw_or_die: io::copy, cat_die on an error
old_copy_raw ==
    /\ prog = "old_cat"
    /\ pc = "copy"
    /\ path = "raw"
    /\ \/ \E chunk \in Chunks :
            /\ Len(inp) + Len(chunk) <= MaxInput
            /\ inp' = inp \o chunk
            /\ out' = out \o chunk
            /\ UNCHANGED <<pc, failed, exit_status>>
       \/ /\ pc' = "loop"
          /\ UNCHANGED <<inp, out, failed, exit_status>>
       \/ /\ failed' = TRUE
          /\ Exit(1)
          /\ UNCHANGED <<inp, out>>
    /\ OldFrame
    /\ UNCHANGED <<chain, files, path, entry, stdin_reads>>

NextOld ==
    \/ old_parse_args_die
    \/ old_main_help
    \/ old_main_version
    \/ old_main
    \/ old_cat_arg
    \/ old_main_return
    \/ old_copy_decorated
    \/ old_copy_raw

(***************************************************************************)
(* Both cat programs, started with any command line                        *)
(***************************************************************************)
Init == InitCat \/ InitOld

Next == NextCat \/ NextOld

Spec == Init /\ [][Next]_vars

(***************************************************************************)
(* src/src/seq: validate_format and its consume_* helpers.  A helper gets   *)
(* the rest of the format (&bytes[p..]) and the index p, and returns        *)
(* [err, index]: err = "" for Ok(()), else the error message.               *)
(***************************************************************************)
MaxFmtLen == 5

FormatChar == {"%", "+", "0", "1", ".", "f", "x"}
Flags == {"+", "-", " ", "#", "0"}
Digits == {"0", "1", "2", "3", "4", "5", "6", "7", "8", "9"}
Specifiers == {"a", "e", "f", "g", "A", "E", "F", "G"}

\* &bytes[p..]
Slice(bytes, p) == SubSeq(bytes, p + 1, Len(bytes))

\* Variant for C4: consume_flags_if_any without the duplicate check
RECURSIVE consume_flags_no_duplicate_check(_, _)
consume_flags_no_duplicate_check(format, index) ==
    IF format # <<>> /\ Head(format) \in Flags
    THEN consume_flags_no_duplicate_check(Tail(format), index + 1)
    ELSE [err |-> "", index |-> index]

\* the `for ch in format` loop of consume_flags_if_any
RECURSIVE flags_loop(_, _, _)
flags_loop(format, flags_found, index) ==
    IF format = <<>> THEN [err |-> "", index |-> index]
    ELSE IF Head(format) \in Flags
         THEN IF Head(format) \in flags_found
              THEN [err |-> "duplicated format flags", index |-> index]
              ELSE flags_loop(Tail(format), flags_found \cup {Head(format)},
                              index + 1)
         ELSE [err |-> "", index |-> index]

consume_flags_if_any(format, index) == flags_loop(format, {}, index)

\* the number of leading elements of s that are in S
RECURSIVE take_while(_, _)
take_while(s, S) ==
    IF s # <<>> /\ Head(s) \in S THEN 1 + take_while(Tail(s), S) ELSE 0

consume_digits(format, index, minimum_digits_expected) ==
    LET digits_found == take_while(format, Digits) IN
    [err   |-> IF minimum_digits_expected > digits_found
               THEN "expected at least n digits to be found" ELSE "",
     index |-> index + digits_found]

consume_precision_if_any(format, index) ==
    IF Len(format) > 0 /\ format[1] = "."
    THEN consume_digits(Tail(format), index + 1, 1)
    ELSE [err |-> "", index |-> index]

\* Variant for C13: consume_specifier taking any character as the specifier
consume_specifier_any(format, index) ==
    IF Len(format) = 0 THEN [err |-> "empty format specifier", index |-> index]
    ELSE [err |-> "", index |-> index + 1]

consume_specifier(format, index) ==
    IF Len(format) = 0 THEN [err |-> "empty format specifier", index |-> index]
    ELSE IF format[1] \notin Specifiers
         THEN [err |-> "invalid specifier", index |-> index]
         ELSE [err |-> "", index |-> index + 1]

\* validate_format's `while p < bytes.len()` loop; "" is Ok(())
RECURSIVE validate_loop(_, _, _)
validate_loop(bytes, p, found_format) ==
    IF p >= Len(bytes)
    THEN IF found_format THEN "" ELSE "no format found"
    ELSE IF bytes[p + 1] = "%"
    THEN LET num_percents == take_while(Slice(bytes, p), {"%"}) IN
         IF ~found_format /\ num_percents = 1
         THEN LET flags == consume_flags_if_any(Slice(bytes, p + 1), p + 1)
                  width == consume_digits(Slice(bytes, flags.index), flags.index, 0)
                  prec  == consume_precision_if_any(Slice(bytes, width.index),
                                                    width.index)
                  spec  == consume_specifier(Slice(bytes, prec.index), prec.index)
              IN  IF flags.err # "" THEN flags.err
                  ELSE IF width.err # "" THEN width.err
                  ELSE IF prec.err # "" THEN prec.err
                  ELSE IF spec.err # "" THEN spec.err
                  ELSE validate_loop(bytes, spec.index, TRUE)
         ELSE IF num_percents % 2 # 0
              THEN "unescaped sequence of '%' is invalid"
              ELSE validate_loop(bytes, p + num_percents + 1, found_format)
    ELSE validate_loop(bytes, p + 1, found_format)

validate_format(format) == validate_loop(format, 0, FALSE)

\* validate_format applied to any format of up to MaxFmtLen characters
InitFormat ==
    /\ prog = "validate"
    /\ pc = "validate"
    /\ config \in {[NoConfig EXCEPT !.format = f] :
                     f \in SeqsUpTo(FormatChar, MaxFmtLen)}
    /\ k = 0
    /\ result = "none"
    /\ out = <<>>
    /\ exit_status = -1
    /\ CatIdle

validate ==
    /\ prog = "validate"
    /\ pc = "validate"
    /\ result' = IF validate_format(config.format) = "" THEN "Ok" ELSE "Err"
    /\ pc' = "validated"
    /\ UNCHANGED <<prog, out, exit_status, catvars, config, k>>

NextFormat == validate

SpecFormat == InitFormat /\ [][NextFormat]_vars

(***************************************************************************)
(* src/src/seq: seq.  Numbers are integers here, so the rounding of the     *)
(* f64 arithmetic is outside the model; a printf call is recorded in out    *)
(* as the record of its arguments.                                          *)
(***************************************************************************)
MaxVal == 2

\* the cap on k: every run that leaves the loop does so before it
MaxK == 2 * MaxVal + 2

Value == (0 - MaxVal) .. MaxVal

SeqFormat == {<<"%", "f">>, <<"%", ".", "1", "f">>, <<"%", "c">>}

\* print_string(string) and print_formatted_f64(fmt, value)
print_string(string) == [str |-> string]
print_formatted_f64(fmt, value) == [fmt |-> fmt, value |-> value]

\* seq called by main with any SeqConfig
InitSeq ==
    /\ prog = "seq"
    /\ pc = "seq"
    /\ config \in [first : Value, inc : Value, last : Value,
                   separator : {<<NL>>, <<",">>}, format : SeqFormat]
    /\ k = 0
    /\ result = "none"
    /\ out = <<>>
    /\ exit_status = -1
    /\ CatIdle

SeqFrame ==
    UNCHANGED <<prog, config, result, options, args, decorators, chain, files,
                state, input, path, inp, entry, stdin_reads>>

\* seq, line 115: validate_format(&config.format)?; main dies on the Err
seq_validate ==
    /\ prog = "seq"
    /\ pc = "seq"
    /\ \/ /\ validate_format(config.format) = ""
          /\ pc' = "seq_loop"
          /\ k' = 0
          /\ UNCHANGED exit_status
       \/ /\ validate_format(config.format) # ""
          /\ Exit(1)
          /\ UNCHANGED k
    /\ SeqFrame
    /\ UNCHANGED <<out, failed>>

\* Variant for C5: the loop body writing the separator before every token
seq_loop_separator_first ==
    /\ prog = "seq"
    /\ pc = "seq_loop"
    /\ LET current == config.first + k * config.inc IN
       \/ /\ current > config.last
          /\ out' = Append(out, print_string(<<NL>>))
          /\ Exit(0)
          /\ UNCHANGED <<k, failed>>
       \/ /\ ~(current > config.last)
          /\ k < MaxK
          /\ out' = out \o <<print_string(config.separator),
                             print_formatted_f64(config.format, current)>>
          /\ k' = k + 1
          /\ UNCHANGED <<pc, exit_status, failed>>
       \/ /\ failed' = TRUE
          /\ Exit(1)
          /\ UNCHANGED <<k, out>>
    /\ SeqFrame

\* One iteration of seq's loop (lines 117-127), and the print_string("\n")
\* after it when the loop breaks (line 128)
seq_loop ==
    /\ prog = "seq"
    /\ pc = "seq_loop"
    /\ LET current == config.first + k * config.inc IN
       \/ /\ current > config.last         \* break
          /\ out' = Append(out, print_string(<<NL>>))
          /\ Exit(0)
          /\ UNCHANGED <<k, failed>>
       \/ /\ ~(current > config.last)
          /\ k < MaxK
          /\ out' = out
                    \o (IF k > 0 THEN <<print_string(config.separator)>> ELSE <<>>)
                    \o <<print_formatted_f64(config.format, current)>>
          /\ k' = k + 1
          /\ UNCHANGED <<pc, exit_status, failed>>
       \/ /\ failed' = TRUE                \* printf returns < 0: die!("I/O error")
          /\ Exit(1)
          /\ UNCHANGED <<k, out>>
    /\ SeqFrame

NextSeq ==
    \/ seq_validate
    \/ seq_loop

SpecSeq == InitSeq /\ [][NextSeq]_vars

\* seq called with any format of up to MaxFmtLen characters, among them the
\* '*' of printf, a conversion that takes an int (d) and a length modifier (L)
PrintfChar == {"%", "*", "1", ".", "f", "d", "L"}

InitSafe ==
    /\ prog = "seq"
    /\ pc = "seq"
    /\ config \in {[first |-> 1, inc |-> 1, last |-> 2, separator |-> <<NL>>,
                    format |-> f] : f \in SeqsUpTo(PrintfChar, MaxFmtLen)}
    /\ k = 0
    /\ result = "none"
    /\ out = <<>>
    /\ exit_status = -1
    /\ CatIdle

SpecSafe == InitSafe /\ [][NextSeq]_vars

(***************************************************************************)
(* src/src/seq: main.  An operand is the string written on the command     *)
(* line.  parse_float gives its value in units of 1/Scale, the unit of     *)
(* config.first, config.inc and config.last in the runs that start in      *)
(* main, so that every operand of up to MaxOperandLen characters has an    *)
(* exact value.                                                            *)
(***************************************************************************)
MaxOperandLen == 3

OperandChar == {"1", "."}
Operand == SeqsUpTo(OperandChar, MaxOperandLen)

RECURSIVE Pow10(_)
Pow10(n) == IF n = 0 THEN 1 ELSE 10 * Pow10(n - 1)

Scale == Pow10(MaxOperandLen)

\* the value of a digit character, and of a string of digits
DigitValue(c) == CHOOSE d \in 0 .. 9 : DigitChar(d) = c

RECURSIVE DigitsValue(_)
DigitsValue(s) ==
    IF s = <<>> THEN 0
    ELSE 10 * DigitsValue(SubSeq(s, 1, Len(s) - 1)) + DigitValue(s[Len(s)])

\* float.find('.'): the 0-based index of the first '.', -1 for None
find_dot(float) ==
    LET hits == {i \in 1 .. Len(float) : float[i] = "."}
    IN  IF hits = {} THEN -1
        ELSE (CHOOSE i \in hits : \A j \in hits : i <= j) - 1

\* Variant for C11: the '.' counted with the digits after it
detect_precision_with_dot(float) ==
    IF find_dot(float) >= 0 THEN Len(float) - find_dot(float) ELSE 0

detect_precision(float) ==
    IF find_dot(float) >= 0 THEN Len(float) - find_dot(float) - 1 ELSE 0

\* float.parse::<f64>() on a string of digits and '.': Ok for digits with at
\* most one '.' among them and at least one digit, else Err (main dies)
parse_float(float) ==
    LET n    == find_dot(float)
        int  == IF n < 0 THEN float ELSE SubSeq(float, 1, n)
        frac == IF n < 0 THEN <<>> ELSE SubSeq(float, n + 2, Len(float))
    IN  IF /\ \A i \in 1 .. Len(int) : int[i] \in Digits
           /\ \A i \in 1 .. Len(frac) : frac[i] \in Digits
           /\ Len(int) + Len(frac) > 0
        THEN [ok |-> TRUE,
              value |-> DigitsValue(int) * Scale
                        + DigitsValue(frac) * Pow10(MaxOperandLen - Len(frac))]
        ELSE [ok |-> FALSE, value |-> 0]

max(a, b) == IF a >= b THEN a ELSE b

\* the command lines of seq: -h, -v, -f FORMAT ("none" when absent),
\* -s STRING ("none" when absent) and up to three operands, or four
SeqOptions ==
    [h : BOOLEAN, v : BOOLEAN,
     f : {"none", <<"%", "f">>, <<"%", "c">>},
     s : {"none", <<",">>},
     free : SeqsUpTo(Operand, 3) \cup {<<<<"1">>, <<"1">>, <<"1">>, <<"1">>>>}]

InitMain ==
    /\ prog = "seq"
    /\ pc = "main"
    /\ options \in {o \in SeqOptions : ~(o.h /\ o.v) /\ (o.h \/ o.v => o.free = <<>>)}
    /\ args = <<>>
    /\ decorators = NoDecorators
    /\ chain = <<>>
    /\ files = <<>>
    /\ state = InitialState
    /\ input = ZeroBuffer
    /\ path = "none"
    /\ inp = <<>>
    /\ entry = <<>>
    /\ failed = FALSE
    /\ stdin_reads = 0
    /\ SeqIdle
    /\ out = <<>>
    /\ exit_status = -1

\* main of seq up to its call of seq(&config).  "w" is not among the options
\* main declares (its optflag is commented out, lines 276-281), and what
\* options.opt_present("w") does then is decided in the getopts crate, outside
\* this repository: it answers false, or it panics (exit status 101).
seq_main ==
    /\ prog = "seq"
    /\ pc = "main"
    /\ LET free == options.free
           n    == Len(free)
           p1   == IF n > 1 THEN detect_precision(free[1]) ELSE 0
           precision == IF n > 2 THEN max(p1, detect_precision(free[2])) ELSE p1
           first == IF n > 1 THEN parse_float(free[1]) ELSE [ok |-> TRUE, value |-> Scale]
           inc   == IF n > 2 THEN parse_float(free[2]) ELSE [ok |-> TRUE, value |-> Scale]
           last  == IF n > 2 THEN parse_float(free[3]) ELSE parse_float(free[1])
       IN
       \/ /\ options.h                      \* show_help
          /\ out' = <<"help">>
          /\ Exit(0)
          /\ UNCHANGED config
       \/ /\ ~options.h /\ options.v
          /\ out' = <<"version">>
          /\ Exit(0)
          /\ UNCHANGED config
       \/ /\ ~options.h /\ ~options.v
          /\ n = 0                          \* die!("missing operand")
          /\ Exit(1)
          /\ UNCHANGED <<out, config>>
       \/ /\ ~options.h /\ ~options.v
          /\ n > 3                          \* die!("extra operand")
          /\ Exit(1)
          /\ UNCHANGED <<out, config>>
       \/ /\ ~options.h /\ ~options.v
          /\ n \in 1 .. 3
          /\ ~(first.ok /\ inc.ok /\ last.ok)   \* parse_float dies
          /\ Exit(1)
          /\ UNCHANGED <<out, config>>
       \/ /\ ~options.h /\ ~options.v
          /\ n \in 1 .. 3
          /\ first.ok /\ inc.ok /\ last.ok
          /\ Exit(101)                      \* opt_present("w") panics
          /\ UNCHANGED <<out, config>>
       \/ /\ ~options.h /\ ~options.v
          /\ n \in 1 .. 3
          /\ first.ok /\ inc.ok /\ last.ok
          /\ config' = [separator |-> IF options.s = "none" THEN <<NL>>
                                      ELSE options.s,
                        first  |-> first.value,
                        inc    |-> inc.value,
                        last   |-> last.value,
                        format |-> IF options.f = "none"
                                   THEN <<"%", ".">> \o Decimal(precision) \o <<"f">>
                                   ELSE options.f]
          /\ pc' = "seq"
          /\ UNCHANGED <<out, exit_status>>
    /\ UNCHANGED <<prog, k, result, options, args, decorators, chain, files,
                   state, input, path, inp, entry, failed, stdin_reads>>

NextMain ==
    \/ seq_main
    \/ seq_validate
    \/ seq_loop

SpecMain == InitMain /\ [][NextMain]_vars

(***************************************************************************)
(* Properties of seq                                                       *)
(***************************************************************************)
\* every maximal run of '%' in t has an even length
Escaped(t) ==
    \A i \in 1 .. Len(t) :
       (t[i] = "%" /\ (i = 1 \/ t[i - 1] # "%"))
       => take_while(SubSeq(t, i, Len(t)), {"%"}) % 2 = 0

\* s[i] is a '%' and s[i .. j] is a conversion: the '%', then all the flag
\* characters that follow it, pairwise distinct (s[i+1 .. a]), the width digits
\* (s[a+1 .. b]), nothing or a '.' and at least one digit (s[b+1 .. c]), and
\* one specifier (s[j], j = c + 1)
Conversion(s, i, j) ==
    /\ s[i] = "%"
    /\ j <= Len(s)
    /\ s[j] \in Specifiers
    /\ \E a \in i .. (j - 1), b \in i .. (j - 1) :
          LET c == j - 1 IN
          /\ a <= b
          /\ \A x \in (i + 1) .. a : s[x] \in Flags
          /\ \A x, y \in (i + 1) .. a : s[x] = s[y] => x = y
          /\ s[a + 1] \notin Flags
          /\ \A x \in (a + 1) .. b : s[x] \in Digits
          /\ \/ b = c
             \/ /\ s[b + 1] = "."
                /\ c >= b + 2
                /\ \A x \in (b + 2) .. c : s[x] \in Digits

\* the grammar of C4: ordinary characters and even runs of '%' around exactly
\* one single '%' that starts a conversion
MatchesGrammar(s) ==
    \E i \in 1 .. Len(s), j \in 1 .. Len(s) :
       /\ i < j
       /\ i = 1 \/ s[i - 1] # "%"
       /\ Conversion(s, i, j)
       /\ Escaped(SubSeq(s, 1, i - 1))
       /\ Escaped(SubSeq(s, j + 1, Len(s)))

\* C4: validate_format returns Ok exactly when the format matches the grammar
\* (one conversion %[flags][width][.prec]specifier with distinct flags and a
\* specifier in {a,e,f,g,A,E,F,G}; every other '%' in an even run).
C4_ValidateIsGrammar ==
    pc = "validated" => (result = "Ok" <=> MatchesGrammar(config.format))

\* C4, reachable case: a format with a flag, a conversion and an escaped pair was
\* accepted
C4_AcceptedWithEscape ==
    /\ pc = "validated"
    /\ result = "Ok"
    /\ Cardinality({i \in 1 .. Len(config.format) : config.format[i] = "%"}) = 3
    /\ Has(config.format, "0")

\* first + j*increment <= last
InRange(c, j) == c.first + j * c.inc <= c.last

\* the tokens for k = 0 .. n-1 with the separator between consecutive ones
RECURSIVE Joined(_, _)
Joined(c, n) ==
    IF n = 0 THEN <<>>
    ELSE IF n = 1 THEN <<[fmt |-> c.format, value |-> c.first]>>
    ELSE Joined(c, n - 1)
         \o <<[str |-> c.separator],
              [fmt |-> c.format, value |-> c.first + (n - 1) * c.inc]>>

\* C5: for a valid format seq emits exactly the tokens for k = 0, 1, 2, ...
\* while first + k*increment <= last, in increasing k, the separator between
\* consecutive tokens only, then exactly one newline; no token when first is
\* already greater than last.
C5_TokensAndSeparators ==
    /\ pc = "seq_loop"
       => (out = Joined(config, k) /\ \A j \in 0 .. (k - 1) : InRange(config, j))
    /\ (pc = "exit" /\ exit_status = 0)
       => \E n \in 0 .. MaxK :
             /\ \A j \in 0 .. (n - 1) : InRange(config, j)
             /\ ~InRange(config, n)
             /\ out = Append(Joined(config, n), [str |-> <<NL>>])

\* C5, reachable case: a run that printed three tokens, two separators and the newline
C5_ThreeTokens ==
    /\ pc = "exit"
    /\ exit_status = 0
    /\ Len(out) = 6

\* C6: for every first, increment and last the loop reaches an index at which
\* first + k*increment > last, so that the generation stops.
C6_LoopReachesItsEnd ==
    pc = "seq_loop" => \E j \in k .. (k + MaxK) : ~InRange(config, j)

\* the number of characters of s that come after its first '.'
CharsAfterDot(s) ==
    Cardinality({i \in 1 .. Len(s) : \E j \in 1 .. (i - 1) : s[j] = "."})

\* the FIRST and the INCREMENT operand as written, <<>> when absent
FirstOperand(free) == IF Len(free) > 1 THEN free[1] ELSE <<>>
IncrementOperand(free) == IF Len(free) > 2 THEN free[2] ELSE <<>>

\* C11: detect_precision(s) is the number of characters after the first '.' of
\* s (0 without a '.'), and without -f the format of the SeqConfig main builds
\* is "%.<p>f", p the greater of the counts of the FIRST and the INCREMENT
\* operand, an absent operand counting 0 and LAST never counting.
C11_DefaultPrecision ==
    /\ \A s \in Operand : detect_precision(s) = CharsAfterDot(s)
    /\ (pc # "main" /\ config # NoConfig /\ options.f = "none")
       => config.format
          = <<"%", ".">>
            \o Decimal(max(CharsAfterDot(FirstOperand(options.free)),
                           CharsAfterDot(IncrementOperand(options.free))))
            \o <<"f">>

\* C11, reachable case: a run without -f printed two numbers or more with the
\* precision of its INCREMENT operand, greater than that of FIRST
C11_IncrementDecides ==
    /\ pc = "exit"
    /\ exit_status = 0
    /\ options.f = "none"
    /\ Len(options.free) = 3
    /\ CharsAfterDot(options.free[1]) = 0
    /\ CharsAfterDot(options.free[2]) = 1
    /\ config.format = <<"%", ".", "1", "f">>
    /\ Len(out) >= 4

(***************************************************************************)
(* Properties of the cat programs                                          *)
(***************************************************************************)
\* the flags the command line sets
Flag(f) ==
    IF prog = "cat"
    THEN (f = "ends" /\ options.E) \/ (f = "number" /\ options.n)
         \/ (f = "squeeze" /\ options.s)
    ELSE (f = "ends" /\ Has(args, "Ends")) \/ (f = "number" /\ Has(args, "Number"))
         \/ (f = "squeeze" /\ Has(args, "Squeeze"))

AnyFlag == Flag("ends") \/ Flag("number") \/ Flag("squeeze")

\* the program ran to its normal end and no I/O operation failed
Finished == pc = "exit" /\ exit_status = 0 /\ entry # <<>> /\ ~failed

Newlines(s) == {i \in 1 .. Len(s) : s[i] = NL}

\* the position of the i-th newline of s
NthNewline(s, i) ==
    CHOOSE q \in Newlines(s) : Cardinality({r \in Newlines(s) : r <= q}) = i

\* the i-th newline-terminated line of s has no content
EmptyLine(s, i) == NthNewline(s, i) = 1 \/ s[NthNewline(s, i) - 1] = NL

\* where the i-th line of s starts
LineStart(s, i) == IF i = 1 THEN 1 ELSE NthNewline(s, i - 1) + 1

\* s with a '$' inserted before every newline
RECURSIVE ShowEnds(_)
ShowEnds(s) ==
    IF s = <<>> THEN <<>>
    ELSE (IF Head(s) = NL THEN <<"$", NL>> ELSE <<Head(s)>>) \o ShowEnds(Tail(s))

\* C1: with only show_ends enabled the output is the input with exactly one '$'
\* inserted immediately before every newline, whatever the split into reads and
\* whether or not the input ends with a newline (src/src/cat).
C1_ShowEndsOnly ==
    (prog = "cat" /\ Finished /\ Flag("ends") /\ ~Flag("number")
        /\ ~Flag("squeeze"))
    => out = ShowEnds(inp)

\* C2: with number_lines enabled every emitted newline-terminated line starts
\* with its line number, right-aligned in 6 characters and followed by ": ";
\* the numbers start at 1 and increase by one per emitted line (src/src/cat).
C2_NumberedLines ==
    (prog = "cat" /\ Flag("number") /\ ~failed)
    => \A i \in 1 .. Cardinality(Newlines(out)) :
          LET from == LineStart(out, i)
              to   == from + Len(LineNumber(i)) - 1
          IN  /\ to < NthNewline(out, i)
              /\ SubSeq(out, from, to) = LineNumber(i)

\* s without the bytes at the positions in P
RECURSIVE Without(_, _, _)
Without(s, P, i) ==
    IF i > Len(s) THEN <<>>
    ELSE (IF i \in P THEN <<>> ELSE <<s[i]>>) \o Without(s, P, i + 1)

\* d says of every newline-terminated line of s whether it is kept: a
\* non-empty line and the first empty line of a run are, the third and every
\* later empty line of a run is not
SqueezeDecision(s, d) ==
    \A i \in DOMAIN d :
       /\ ~EmptyLine(s, i) => d[i]
       /\ (EmptyLine(s, i) /\ (i = 1 \/ ~EmptyLine(s, i - 1))) => d[i]
       /\ (i >= 3 /\ EmptyLine(s, i) /\ EmptyLine(s, i - 1)
             /\ EmptyLine(s, i - 2)) => ~d[i]

Fresh == IF prog = "cat" THEN InitialState ELSE old_decorators(args)

\* C7 as claimed: the processing of every file/stdin argument starts with
\* current_line = 1 and the initial streak value, whatever came before.
C7_ResetPerArgument == \A i \in 1 .. Len(entry) : entry[i] = Fresh

\* C7 as amended: the counters are made once, in main, and from then on only a
\* decorated read changes them: the first argument starts with the initial
\* values and every later argument with the values the previous one left, so
\* with -n the line number goes on counting across the arguments.
C7_SharedAcrossArguments ==
    /\ [][(state' # state \/ chain' # chain)
            => (pc = "main" \/ (pc = "copy" /\ path = "decorated"))]_vars
    /\ [](entry # <<>> => entry[1] = Fresh)
    /\ []((prog = "cat" /\ decorators.number)
            => state.current_line = 1 + Cardinality(Newlines(out)))

\* C7, reachable case: a second argument is entered with counters the first one changed
C7_SecondArgumentContinues ==
    /\ Len(entry) = 2
    /\ entry[2] # entry[1]
    /\ pc = "copy"

\* C8: a read or write failure while copying ends the process at once with a
\* non-zero exit status, on the decorated path as on the raw path.
C8_FailureIsFatal == failed => (pc = "exit" /\ exit_status # 0)

\* C9: with no decoration flag the bytes written equal the bytes read, in
\* order, through the raw copy; the decorated copy is taken exactly when at
\* least one flag is set.
C9_RawIdentity ==
    entry # <<>>
    => /\ ~AnyFlag => (path = "raw" /\ out = inp)
       /\ AnyFlag => path = "decorated"

\* C9, reachable case: a flagless run has copied input holding a newline and ended
C9_RawCopyDone ==
    /\ Finished
    /\ ~AnyFlag
    /\ Newlines(inp) # {}
    /\ Len(inp) >= 2

\* the command line names no input: no file name and no "-"
NoPositional ==
    IF prog = "cat" THEN options.free = <<>>
    ELSE ~Has(args, "File") /\ ~Has(args, "Stdin")

\* C10: in every cat of the repository a command line without a positional
\* argument (empty, or option flags only) copies standard input exactly once.
C10_StdinByDefault ==
    (pc = "exit" /\ exit_status = 0 /\ ~failed /\ NoPositional
        /\ ~(prog = "cat" /\ (options.h \/ options.v))
        /\ ~(prog = "old_cat" /\ (Has(args, "Help") \/ Has(args, "Version"))))
    => stdin_reads = 1

\* the ways a reader can deliver the bytes s: the sequences of non-empty
\* chunks of at most BUFSIZE bytes whose concatenation is s
RECURSIVE Splittings(_)
Splittings(s) ==
    IF s = <<>> THEN {<<>>}
    ELSE UNION {{<<SubSeq(s, 1, n)>> \o r :
                    r \in Splittings(SubSeq(s, n + 1, Len(s)))} :
                n \in 1 .. (IF Len(s) < BUFSIZE THEN Len(s) ELSE BUFSIZE)}

\* C12: the bytes copy_decorated has emitted and its State depend only on the
\* bytes read so far and on the flags: every way of delivering the same bytes
\* in reads gives the output and the State of this run.
C12_ChunkingIndependent ==
    (prog = "cat" /\ pc = "copy" /\ path = "decorated" /\ Len(entry) = 1)
    => \A c \in Splittings(inp) :
          read_loop(c, ZeroBuffer, decorators,
                    [out |-> <<>>, state |-> InitialState])
          = [out |-> out, state |-> state]

(***************************************************************************)
(* How C printf reads a format, left to right: an ordinary character is    *)
(* copied, "%%" is a literal, any other '%' starts a conversion            *)
(* %[flags][width | *][.[precision | *]][length]specifier.                 *)
(***************************************************************************)
At(s, i) == IF i >= 1 /\ i <= Len(s) THEN s[i] ELSE "end"

LengthModifiers == {"h", "l", "j", "z", "t", "L"}

\* the conversion printf reads at the '%' at s[i]: its specifier ("end" when
\* the format ends before it), whether a '*' stands for the width or the
\* precision, its length modifier, and the index after it
PrintfConversion(s, i) ==
    LET a == i + 1 + take_while(SubSeq(s, i + 1, Len(s)), Flags)
        b == IF At(s, a) = "*" THEN a + 1
             ELSE a + take_while(SubSeq(s, a, Len(s)), Digits)
        c == IF At(s, b) # "." THEN b
             ELSE IF At(s, b + 1) = "*" THEN b + 2
             ELSE b + 1 + take_while(SubSeq(s, b + 1, Len(s)), Digits)
        d == c + take_while(SubSeq(s, c, Len(s)), LengthModifiers)
    IN  [spec   |-> At(s, d),
         star   |-> At(s, a) = "*" \/ (At(s, b) = "." /\ At(s, b + 1) = "*"),
         length |-> SubSeq(s, c, d - 1),
         next   |-> d + 1]

\* the conversions printf reads in s from index i on, in order
RECURSIVE PrintfConversions(_, _)
PrintfConversions(s, i) ==
    IF i > Len(s) THEN <<>>
    ELSE IF s[i] # "%" THEN PrintfConversions(s, i + 1)
    ELSE IF At(s, i + 1) = "%" THEN PrintfConversions(s, i + 2)
    ELSE <<PrintfConversion(s, i)>>
         \o PrintfConversions(s, PrintfConversion(s, i).next)

\* printf(s, one double) reads exactly its one argument, as a double
PrintfSafe(s) ==
    LET c == PrintfConversions(s, 1) IN
    /\ Len(c) = 1
    /\ c[1].spec \in Specifiers
    /\ ~c[1].star
    /\ c[1].length = <<>>

\* C13: a format validate_format accepts is read by printf as exactly one
\* conversion, with a specifier in {a,e,f,g,A,E,F,G}, no '*' and no length
\* modifier, so that printf takes the one double it is given; and every
\* format seq hands to print_formatted_f64 was accepted by validate_format.
C13_AcceptedIsPrintfSafe ==
    /\ validate_format(config.format) = "" => PrintfSafe(config.format)
    /\ \A i \in 1 .. Len(out) :
          "fmt" \in DOMAIN out[i]
          => (validate_format(out[i].fmt) = "" /\ PrintfSafe(out[i].fmt))

\* C13, reachable case: seq printed its numbers with an accepted format that
\* holds an escaped pair beside its conversion
C13_PrintedWithEscape ==
    /\ pc = "exit"
    /\ exit_status = 0
    /\ Len(out) = 4
    /\ Cardinality({i \in 1 .. Len(config.format) : config.format[i] = "%"}) = 3

====
